---- MODULE Spec2Model ----
(***************************************************************************)
(* ngx-image-cropper: the cropper geometry state (CropperState) and the    *)
(* image loading pipeline (LoadImageService).                              *)
(*                                                                         *)
(* Numbers are JavaScript numbers: binary floating point, modelled as      *)
(* fractions n/d extended with +Infinity (1/0), -Infinity (-1/0) and NaN   *)
(* (0/0); the value `undefined` is a separate value that converts to NaN   *)
(* in arithmetic.  An integer result of +, -, * and / is exact, as it is  *)
(* in a double below 2^53; any other result is rounded to the nearest      *)
(* number with a significand of Precision bits, ties to even.  The range   *)
(* of the exponent is not bounded.                                         *)
(***************************************************************************)
EXTENDS Integers, Sequences, FiniteSets, TLC

(* ------------------------------------------------------------------ *)
(* JavaScript numbers                                                  *)
(* ------------------------------------------------------------------ *)

Abs(i) == IF i < 0 THEN -i ELSE i

Sign(i) == IF i < 0 THEN -1 ELSE IF i > 0 THEN 1 ELSE 0

RECURSIVE Gcd(_, _)
Gcd(a, b) == IF b = 0 THEN a ELSE Gcd(b, a % b)

\* n/d in lowest terms, d >= 0; d = 0 holds the signed infinities and NaN.
Norm(n, d) ==
    IF d = 0 THEN [n |-> Sign(n), d |-> 0]
    ELSE LET g == Gcd(Abs(n), d) IN [n |-> n \div g, d |-> d \div g]

Q(n, d) == Norm(n, d)
R(i) == [n |-> i, d |-> 1]
Zero == R(0)
NaN == [n |-> 0, d |-> 0]
Infinity == [n |-> 1, d |-> 0]
Undefined == [n |-> 0, d |-> -1]

IsNaN(a) == a.n = 0 /\ a.d = 0
IsFinite(a) == a.d > 0

\* ToNumber: undefined converts to NaN.
ToNum(v) == IF v = Undefined THEN NaN ELSE v

\* ToBoolean of a number or undefined: 0, NaN and undefined are falsy.
Truthy(v) == v # Undefined /\ v.n # 0

\* Bits of the significand of a number (53 in a double).
Precision == 8

RECURSIVE Pow2(_)
Pow2(k) == IF k = 0 THEN 1 ELSE 2 * Pow2(k - 1)

\* a/d = q * 2^e with 2^(Precision-1) <= q < 2^Precision; q is left as a/d.
RECURSIVE Scaled(_, _, _)
Scaled(a, d, e) ==
    IF a >= d * Pow2(Precision) THEN Scaled(a, 2 * d, e + 1)
    ELSE IF a < d * Pow2(Precision - 1) THEN Scaled(2 * a, d, e - 1)
    ELSE [a |-> a, d |-> d, e |-> e]

\* The integer nearest to a/d, the even one of two that are equally near.
NearestEven(a, d) ==
    IF 2 * (a % d) > d \/ (2 * (a % d) = d /\ (a \div d) % 2 = 1)
    THEN (a \div d) + 1 ELSE a \div d

Significand(s, sign) ==
    IF s.e >= 0 THEN Norm(sign * NearestEven(s.a, s.d) * Pow2(s.e), 1)
    ELSE Norm(sign * NearestEven(s.a, s.d), Pow2(-s.e))

\* The number nearest to the exact result v of an operation.
Round(v) ==
    IF v.d <= 1 THEN v
    ELSE Significand(Scaled(Abs(v.n), v.d, 0), Sign(v.n))

Add(x, y) ==
    LET a == ToNum(x)
        b == ToNum(y)
    IN IF a.d = 0 /\ b.d = 0 THEN (IF a = b THEN a ELSE NaN)
       ELSE Round(Norm(a.n * b.d + b.n * a.d, a.d * b.d))

Neg(x) == LET a == ToNum(x) IN [n |-> -a.n, d |-> a.d]

Sub(x, y) == Add(x, Neg(y))

Mul(x, y) ==
    LET a == ToNum(x)
        b == ToNum(y)
    IN Round(Norm(a.n * b.n, a.d * b.d))

Recip(a) == IF a.n < 0 THEN [n |-> -a.d, d |-> -a.n] ELSE [n |-> a.d, d |-> a.n]

Div(x, y) ==
    LET a == ToNum(x)
        b == ToNum(y)
    IN Round(Norm(a.n * Recip(b).n, a.d * Recip(b).d))

\* a < b; every comparison with NaN is false.
Lt(x, y) ==
    LET a == ToNum(x)
        b == ToNum(y)
    IN IF IsNaN(a) \/ IsNaN(b) THEN FALSE
       ELSE IF a.d = 0 /\ b.d = 0 THEN a.n < b.n
       ELSE a.n * b.d < b.n * a.d

Gt(x, y) == Lt(y, x)

\* a === b on numbers: NaN differs from everything, itself included.
StrictEq(x, y) == x = y /\ ~(x # Undefined /\ IsNaN(x))

Leq(x, y) == Lt(x, y) \/ (StrictEq(x, y) /\ x # Undefined)

\* Math.max / Math.min: NaN if either argument is NaN.
MathMax(x, y) ==
    LET a == ToNum(x)
        b == ToNum(y)
    IN IF IsNaN(a) \/ IsNaN(b) THEN NaN ELSE IF Lt(a, b) THEN b ELSE a

MathMin(x, y) ==
    LET a == ToNum(x)
        b == ToNum(y)
    IN IF IsNaN(a) \/ IsNaN(b) THEN NaN ELSE IF Lt(b, a) THEN b ELSE a

(* ------------------------------------------------------------------ *)
(* CropperState (component/cropper.state.ts)                           *)
(* ------------------------------------------------------------------ *)

\* Bound on the number of operations applied to one CropperState.
MaxSteps == 3

\* The smallest scaled size of the cropper (cropper.state.ts, lines 40..43).
MinScaledSize == 20

VARIABLES options, cropper, maxSize, loadedImage,
          cropperScaledMinWidth, cropperScaledMinHeight,
          cropperScaledMaxWidth, cropperScaledMaxHeight,
          last, steps

\* The state of a LoadImageService, the load in flight and the owner of its result.
VARIABLES autoRotateSupported, pc, task, nextUrl, revoked, current, loads

loadVars == <<autoRotateSupported, pc, task, nextUrl, revoked, current, loads>>

\* The arguments and the result of one call of getTransformedSize.
VARIABLES sizeInput, sizeOutput

sizeVars == <<sizeInput, sizeOutput>>

cropperVars == <<options, cropper, maxSize, loadedImage,
               cropperScaledMinWidth, cropperScaledMinHeight,
               cropperScaledMaxWidth, cropperScaledMaxHeight, last, steps>>

vars == <<cropperVars, loadVars, sizeVars>>

\* The option fields CropperState (and its clamping collaborator) read.
OptionKeys ==
    {"maintainAspectRatio", "aspectRatio", "resetCropOnAspectRatioChange",
     "cropperMinWidth", "cropperMinHeight", "cropperMaxWidth", "cropperMaxHeight",
     "cropperStaticWidth", "cropperStaticHeight"}

DefaultOptions ==
    [maintainAspectRatio |-> TRUE,
     aspectRatio |-> R(1),
     resetCropOnAspectRatioChange |-> TRUE,
     cropperMinWidth |-> Zero,
     cropperMinHeight |-> Zero,
     cropperMaxHeight |-> Zero,
     cropperMaxWidth |-> Zero,
     cropperStaticWidth |-> Zero,
     cropperStaticHeight |-> Zero]

Dim(w, h) == [width |-> w, height |-> h]

Pos(x1, y1, x2, y2) == [x1 |-> x1, y1 |-> y1, x2 |-> x2, y2 |-> y2]

\* loadedImage?: undefined until the host stores a LoadedImage; of a LoadedImage
\* the state reads transformed.image.complete and transformed.size only.
NoImage == [present |-> FALSE, complete |-> FALSE, size |-> Dim(Zero, Zero)]

Image(size) == [present |-> TRUE, complete |-> TRUE, size |-> size]

\* The object `this` as a record of its fields.
This ==
    [options |-> options,
     cropper |-> cropper,
     maxSize |-> maxSize,
     loadedImage |-> loadedImage,
     cropperScaledMinWidth |-> cropperScaledMinWidth,
     cropperScaledMinHeight |-> cropperScaledMinHeight,
     cropperScaledMaxWidth |-> cropperScaledMaxWidth,
     cropperScaledMaxHeight |-> cropperScaledMaxHeight]

InitialState ==
    [options |-> DefaultOptions,
     cropper |-> Pos(Zero, Zero, Zero, Zero),
     maxSize |-> Dim(Zero, Zero),
     loadedImage |-> NoImage,
     cropperScaledMinWidth |-> R(MinScaledSize),
     cropperScaledMinHeight |-> R(MinScaledSize),
     cropperScaledMaxWidth |-> R(MinScaledSize),
     cropperScaledMaxHeight |-> R(MinScaledSize)]

\* {...this.options, ...(options || {})}
MergeOptions(old, partial) ==
    [k \in DOMAIN old \cup DOMAIN partial |->
        IF k \in DOMAIN partial THEN partial[k] ELSE old[k]]

\* options['key'] of a partial: undefined when the key is absent.
Prop(partial, k) == IF k \in DOMAIN partial THEN partial[k] ELSE Undefined

\* validateOptions throws exactly when this holds.
validateOptionsThrows(o) == o.maintainAspectRatio /\ ~Truthy(o.aspectRatio)

setCropperScaledMinWidth(s) ==
    [s EXCEPT !.cropperScaledMinWidth =
        IF Gt(s.options.cropperMinWidth, Zero)
        THEN MathMax(R(MinScaledSize),
                     Mul(Div(s.options.cropperMinWidth, s.loadedImage.size.width),
                         s.maxSize.width))
        ELSE R(MinScaledSize)]

\* setCropperScaledMinHeight that lets cropperMinHeight decide whatever
\* maintainAspectRatio is.
setCropperScaledMinHeight_OwnMinHeight(s) ==
    [s EXCEPT !.cropperScaledMinHeight =
        IF Gt(s.options.cropperMinHeight, Zero)
        THEN MathMax(R(MinScaledSize),
                     Mul(Div(s.options.cropperMinHeight, s.loadedImage.size.height),
                         s.maxSize.height))
        ELSE R(MinScaledSize)]

setCropperScaledMinHeight(s) ==
    [s EXCEPT !.cropperScaledMinHeight =
        IF s.options.maintainAspectRatio
        THEN MathMax(R(MinScaledSize), Div(s.cropperScaledMinWidth, s.options.aspectRatio))
        ELSE IF Gt(s.options.cropperMinHeight, Zero)
        THEN MathMax(R(MinScaledSize),
                     Mul(Div(s.options.cropperMinHeight, s.loadedImage.size.height),
                         s.maxSize.height))
        ELSE R(MinScaledSize)]

setCropperScaledMinSize(s) ==
    IF s.loadedImage.present
    THEN setCropperScaledMinHeight(setCropperScaledMinWidth(s))
    ELSE [s EXCEPT !.cropperScaledMinWidth = R(MinScaledSize),
                   !.cropperScaledMinHeight = R(MinScaledSize)]

\* clampToAspectRatio that clamps the width only.
clampToAspectRatio_WidthOnly(s, w0, h0) ==
    IF s.options.maintainAspectRatio /\ Gt(w0, Mul(h0, s.options.aspectRatio))
    THEN [s EXCEPT !.cropperScaledMaxWidth = Mul(h0, s.options.aspectRatio),
                   !.cropperScaledMaxHeight = h0]
    ELSE [s EXCEPT !.cropperScaledMaxWidth = w0,
                   !.cropperScaledMaxHeight = h0]

\* Lines 145..151: with maintainAspectRatio the wider of the two is clamped down.
clampToAspectRatio(s, w0, h0) ==
    IF s.options.maintainAspectRatio
    THEN IF Gt(w0, Mul(h0, s.options.aspectRatio))
         THEN [s EXCEPT !.cropperScaledMaxWidth = Mul(h0, s.options.aspectRatio),
                        !.cropperScaledMaxHeight = h0]
         ELSE IF Lt(w0, Mul(h0, s.options.aspectRatio))
         THEN [s EXCEPT !.cropperScaledMaxWidth = w0,
                        !.cropperScaledMaxHeight = Div(w0, s.options.aspectRatio)]
         ELSE [s EXCEPT !.cropperScaledMaxWidth = w0,
                        !.cropperScaledMaxHeight = h0]
    ELSE [s EXCEPT !.cropperScaledMaxWidth = w0,
                   !.cropperScaledMaxHeight = h0]

\* Lines 142..144: the maximal size before the aspect ratio is applied; the ratio of
\* the width scales both.
unclampedMaxWidth(s) ==
    IF Gt(s.options.cropperMaxWidth, R(MinScaledSize))
    THEN Div(s.options.cropperMaxWidth, Div(s.loadedImage.size.width, s.maxSize.width))
    ELSE s.maxSize.width

unclampedMaxHeight(s) ==
    IF Gt(s.options.cropperMaxHeight, R(MinScaledSize))
    THEN Div(s.options.cropperMaxHeight, Div(s.loadedImage.size.width, s.maxSize.width))
    ELSE s.maxSize.height

setCropperScaledMaxSize(s) ==
    IF s.loadedImage.present
    THEN clampToAspectRatio(s, unclampedMaxWidth(s), unclampedMaxHeight(s))
    ELSE [s EXCEPT !.cropperScaledMaxWidth = s.maxSize.width,
                   !.cropperScaledMaxHeight = s.maxSize.height]

setMaxSize(s, width, height) ==
    setCropperScaledMaxSize(
        setCropperScaledMinSize([s EXCEPT !.maxSize = Dim(width, height)]))

aspectRatioIsCorrect(s) ==
    LET c == s.cropper
        currentCropAspectRatio == Div(Sub(c.x2, c.x1), Sub(c.y2, c.y1))
    IN StrictEq(currentCropAspectRatio, s.options.aspectRatio)

\* resizeCropperPosition scaling both axes by the ratio of the widths.
resizeCropperPosition_WidthRatio(s, oldMaxSize) ==
    IF ~StrictEq(oldMaxSize.width, s.maxSize.width)
       \/ ~StrictEq(oldMaxSize.height, s.maxSize.height)
    THEN [s EXCEPT !.cropper =
            Pos(Div(Mul(s.cropper.x1, s.maxSize.width), oldMaxSize.width),
                Div(Mul(s.cropper.y1, s.maxSize.width), oldMaxSize.width),
                Div(Mul(s.cropper.x2, s.maxSize.width), oldMaxSize.width),
                Div(Mul(s.cropper.y2, s.maxSize.width), oldMaxSize.width))]
    ELSE s

\* resizeCropperPosition that runs only when the width changed.
resizeCropperPosition_WidthOnly(s, oldMaxSize) ==
    IF ~StrictEq(oldMaxSize.width, s.maxSize.width)
    THEN [s EXCEPT !.cropper =
            Pos(Div(Mul(s.cropper.x1, s.maxSize.width), oldMaxSize.width),
                Div(Mul(s.cropper.y1, s.maxSize.height), oldMaxSize.height),
                Div(Mul(s.cropper.x2, s.maxSize.width), oldMaxSize.width),
                Div(Mul(s.cropper.y2, s.maxSize.height), oldMaxSize.height))]
    ELSE s

resizeCropperPosition(s, oldMaxSize) ==
    IF ~StrictEq(oldMaxSize.width, s.maxSize.width)
       \/ ~StrictEq(oldMaxSize.height, s.maxSize.height)
    THEN [s EXCEPT !.cropper =
            Pos(Div(Mul(s.cropper.x1, s.maxSize.width), oldMaxSize.width),
                Div(Mul(s.cropper.y1, s.maxSize.height), oldMaxSize.height),
                Div(Mul(s.cropper.x2, s.maxSize.width), oldMaxSize.width),
                Div(Mul(s.cropper.y2, s.maxSize.height), oldMaxSize.height))]
    ELSE s

maxSizeCropperPosition(s) == Pos(Zero, Zero, s.maxSize.width, s.maxSize.height)

\* checkCropperPosition(cropper, state, maintainSize) of utils/cropper-position.utils:
\* the clamping collaborator.  It restricts the size of the rectangle to the static
\* size when both static sizes are set, else to [scaledMin, min(scaledMax, maxSize)],
\* about the centre of the rectangle, then moves the edges inside 0..maxSize.  It
\* does not re-apply the aspect ratio.
staticSize(s) ==
    Truthy(s.options.cropperStaticWidth) /\ Truthy(s.options.cropperStaticHeight)

restrictedWidth(c, s) ==
    IF staticSize(s)
    THEN MathMin(s.options.cropperStaticWidth, s.maxSize.width)
    ELSE MathMax(s.cropperScaledMinWidth,
                 MathMin(Sub(c.x2, c.x1), MathMin(s.cropperScaledMaxWidth, s.maxSize.width)))

restrictedHeight(c, s) ==
    IF staticSize(s)
    THEN MathMin(s.options.cropperStaticHeight, s.maxSize.height)
    ELSE MathMax(s.cropperScaledMinHeight,
                 MathMin(Sub(c.y2, c.y1), MathMin(s.cropperScaledMaxHeight, s.maxSize.height)))

Half(v) == Div(v, R(2))

PosAt(x1, y1, width, height) == Pos(x1, y1, Add(x1, width), Add(y1, height))

PosAbout(centerX, centerY, width, height) ==
    PosAt(Sub(centerX, Half(width)), Sub(centerY, Half(height)), width, height)

checkCropperSizeRestriction(c, s) ==
    PosAbout(Add(c.x1, Half(Sub(c.x2, c.x1))), Add(c.y1, Half(Sub(c.y2, c.y1))),
             restrictedWidth(c, s), restrictedHeight(c, s))

boundX1(p, maintainSize) ==
    IF Lt(p.x1, Zero)
    THEN [p EXCEPT !.x1 = Zero, !.x2 = IF maintainSize THEN Sub(p.x2, p.x1) ELSE p.x2]
    ELSE p

boundY1(p, maintainSize) ==
    IF Lt(p.y1, Zero)
    THEN [p EXCEPT !.y1 = Zero, !.y2 = IF maintainSize THEN Sub(p.y2, p.y1) ELSE p.y2]
    ELSE p

boundX2(p, width, maintainSize) ==
    IF Gt(p.x2, width)
    THEN [p EXCEPT !.x2 = width,
                   !.x1 = IF maintainSize
                          THEN MathMax(Sub(p.x1, Sub(p.x2, width)), Zero) ELSE p.x1]
    ELSE p

boundY2(p, height, maintainSize) ==
    IF Gt(p.y2, height)
    THEN [p EXCEPT !.y2 = height,
                   !.y1 = IF maintainSize
                          THEN MathMax(Sub(p.y1, Sub(p.y2, height)), Zero) ELSE p.y1]
    ELSE p

checkCropperWithinMaxSizeBounds(p, s, maintainSize) ==
    boundY2(boundX2(boundY1(boundX1(p, maintainSize), maintainSize),
                    s.maxSize.width, maintainSize),
            s.maxSize.height, maintainSize)

checkCropperPosition(c, s, maintainSize) ==
    checkCropperWithinMaxSizeBounds(checkCropperSizeRestriction(c, s), s, maintainSize)

\* The outcome of a call: the object afterwards, whether the call threw, and whether
\* it reset the position to maxSizeCropperPosition().
Outcome(s, threw, reset) == [state |-> s, threw |-> threw, reset |-> reset]

\* Line 95: this.cropper.update((cropper) => checkCropperPosition(cropper, this, false))
updateCropper(s) == [s EXCEPT !.cropper = checkCropperPosition(s.cropper, s, FALSE)]

\* resetCropper that does not look at the current ratio.
resetCropper_Always(s) ==
    IF s.options.maintainAspectRatio
    THEN Outcome(updateCropper([s EXCEPT !.cropper = maxSizeCropperPosition(s)]),
                 FALSE, TRUE)
    ELSE Outcome(s, FALSE, FALSE)

\* Lines 76..79, then 94..96: the reset to the full frame.
resetCropper(s) ==
    IF s.options.maintainAspectRatio
       /\ (s.options.resetCropOnAspectRatioChange \/ ~aspectRatioIsCorrect(s))
    THEN Outcome(updateCropper([s EXCEPT !.cropper = maxSizeCropperPosition(s)]),
                 FALSE, TRUE)
    ELSE Outcome(s, FALSE, FALSE)

\* Lines 81..83 and 85..87: the scaled sizes an update of the size options recomputes.
minSizeIfChanged(s, partial) ==
    IF Truthy(Prop(partial, "cropperMinWidth")) \/ Truthy(Prop(partial, "cropperMinHeight"))
    THEN setCropperScaledMinSize(s) ELSE s

maxSizeIfChanged(s, partial) ==
    IF Truthy(Prop(partial, "cropperMaxWidth")) \/ Truthy(Prop(partial, "cropperMaxHeight"))
    THEN setCropperScaledMaxSize(s) ELSE s

positionPossiblyChanged(partial) ==
    \E k \in {"cropperMinWidth", "cropperMinHeight", "cropperMaxWidth",
              "cropperMaxHeight", "cropperStaticWidth", "cropperStaticHeight"} :
        Truthy(Prop(partial, k))

updateCropperIf(s, changed) == IF changed THEN updateCropper(s) ELSE s

\* Lines 72..96 of setOptions: the position work on a loaded image.
setOptionsPosition(s, partial) ==
    IF (s.options.maintainAspectRatio /\ Truthy(Prop(partial, "aspectRatio")))
       \/ "maintainAspectRatio" \in DOMAIN partial
    THEN resetCropper(setCropperScaledMaxSize(setCropperScaledMinSize(s)))
    ELSE Outcome(updateCropperIf(maxSizeIfChanged(minSizeIfChanged(s, partial), partial),
                                 positionPossiblyChanged(partial)),
                 FALSE, FALSE)

\* setOptionsMerged without the return of lines 68..70.
setOptionsMerged_NoReturn(s, partial) ==
    IF validateOptionsThrows(s.options) THEN Outcome(s, TRUE, FALSE)
    ELSE setOptionsPosition(s, partial)

\* Lines 66..70: validation, and the return when no image is loaded; `!this.maxSize`
\* is never true, maxSize being a signal object.
setOptionsMerged(s, partial) ==
    IF validateOptionsThrows(s.options) THEN Outcome(s, TRUE, FALSE)
    ELSE IF ~(s.loadedImage.present /\ s.loadedImage.complete)
    THEN Outcome(s, FALSE, FALSE)
    ELSE setOptionsPosition(s, partial)

\* setOptions: the options are merged and stored, then validated.
setOptions(s, partial) ==
    setOptionsMerged([s EXCEPT !.options = MergeOptions(s.options, partial)], partial)

\* Lines 50..58: the changed inputs that are keys of this.options.
changedOptions(s, changes) ==
    [k \in {x \in DOMAIN changes : x \in DOMAIN s.options} |-> changes[k]]

setOptionsIfAny(s, partial, before) ==
    IF DOMAIN partial # {} THEN setOptions(s, partial) ELSE before

setChangedOptions(r, changes) ==
    IF r.threw THEN r ELSE setOptionsIfAny(r.state, changedOptions(r.state, changes), r)

\* setOptionsFromChanges: changes maps each changed input to its currentValue.
\* changes['options'] is applied first, then the changed inputs that are keys of
\* this.options; an exception of the first call ends the method.
setOptionsFromChanges(s, changes) ==
    setChangedOptions(IF "options" \in DOMAIN changes
                      THEN setOptions(s, changes["options"])
                      ELSE Outcome(s, FALSE, FALSE),
                      changes)

(* ------------------------------------------------------------------ *)
(* Inputs                                                              *)
(* ------------------------------------------------------------------ *)

AspectRatioValues == {Undefined, Zero, R(-1), R(1), R(2)}

SizeOptionValues == {Zero, R(100)}

OptionValues(k) ==
    IF k \in {"maintainAspectRatio", "resetCropOnAspectRatioChange"} THEN BOOLEAN
    ELSE IF k = "aspectRatio" THEN AspectRatioValues
    ELSE SizeOptionValues

RECURSIVE PartialsOver(_)
PartialsOver(keys) ==
    IF keys = {} THEN {[x \in {} |-> Zero]}
    ELSE LET k == CHOOSE x \in keys : TRUE
         IN {[x \in DOMAIN p \cup {k} |-> IF x = k THEN v ELSE p[x]] :
               p \in PartialsOver(keys \ {k}), v \in OptionValues(k)}

\* The keys one partial options object sets: each key alone, and the pairs that
\* belong together.
PartialKeySets ==
    {{}} \cup {{k} : k \in OptionKeys}
    \cup {{"aspectRatio", "maintainAspectRatio"},
          {"aspectRatio", "resetCropOnAspectRatioChange"},
          {"maintainAspectRatio", "resetCropOnAspectRatioChange"},
          {"cropperMinWidth", "cropperMinHeight"},
          {"cropperMaxWidth", "cropperMaxHeight"},
          {"cropperStaticWidth", "cropperStaticHeight"},
          {"aspectRatio", "cropperMinWidth"},
          {"maintainAspectRatio", "cropperMaxWidth"}}

Partials == UNION {PartialsOver(keys) : keys \in PartialKeySets}

WithKey(f, k, v) == [x \in DOMAIN f \cup {k} |-> IF x = k THEN v ELSE f[x]]

\* SimpleChanges: an optional `options` object, changed option inputs, and inputs
\* that are no options (imageURL).
ChangeSets ==
    {[k \in {"imageURL"} |-> TRUE]}
    \cup {[k \in {"options"} |-> p] : p \in PartialsOver({"aspectRatio", "maintainAspectRatio"})}
    \cup {WithKey(f, "options", [aspectRatio |-> R(2)]) :
            f \in PartialsOver({"maintainAspectRatio"}) \cup PartialsOver({"cropperMaxWidth"})}
    \cup {WithKey(f, "imageURL", TRUE) :
            f \in PartialsOver({"aspectRatio"}) \cup PartialsOver({"cropperMinWidth"})}

DisplaySizes == {Dim(R(200), R(200)), Dim(R(400), R(200)), Dim(R(200), R(100)),
                 Dim(R(10), R(10))}

ImageSizes == {Dim(R(200), R(200)), Dim(R(400), R(200))}

(* ------------------------------------------------------------------ *)
(* Operations on a CropperState                                        *)
(* ------------------------------------------------------------------ *)

Store(s) ==
    /\ options' = s.options
    /\ cropper' = s.cropper
    /\ maxSize' = s.maxSize
    /\ loadedImage' = s.loadedImage
    /\ cropperScaledMinWidth' = s.cropperScaledMinWidth
    /\ cropperScaledMinHeight' = s.cropperScaledMinHeight
    /\ cropperScaledMaxWidth' = s.cropperScaledMaxWidth
    /\ cropperScaledMaxHeight' = s.cropperScaledMaxHeight

\* An options object with these keys holds aspectRatio or maintainAspectRatio.
TouchesAspect(keys) == keys \cap {"aspectRatio", "maintainAspectRatio"} # {}

\* The call just made: the operation, whether it threw, whether it reset the position,
\* and whether the options object it was given holds aspectRatio or
\* maintainAspectRatio.
CalledWith(op, threw, reset, keys) ==
    /\ last' = [op |-> op, threw |-> threw, reset |-> reset,
                aspect |-> TouchesAspect(keys)]
    /\ steps' = steps + 1

Called(op, threw, reset) == CalledWith(op, threw, reset, {})

InitCropper ==
    /\ options = InitialState.options
    /\ cropper = InitialState.cropper
    /\ maxSize = InitialState.maxSize
    /\ loadedImage = InitialState.loadedImage
    /\ cropperScaledMinWidth = InitialState.cropperScaledMinWidth
    /\ cropperScaledMinHeight = InitialState.cropperScaledMinHeight
    /\ cropperScaledMaxWidth = InitialState.cropperScaledMaxWidth
    /\ cropperScaledMaxHeight = InitialState.cropperScaledMaxHeight
    /\ last = [op |-> "new", threw |-> FALSE, reset |-> FALSE, aspect |-> FALSE]
    /\ steps = 0

Returned(r, op, keys) == Store(r.state) /\ CalledWith(op, r.threw, r.reset, keys)

SetOptions ==
    /\ steps < MaxSteps
    /\ \E partial \in Partials :
         Returned(setOptions(This, partial), "setOptions", DOMAIN partial)
    /\ UNCHANGED <<loadVars, sizeVars>>

SetOptionsFromChanges ==
    /\ steps < MaxSteps
    /\ \E changes \in ChangeSets :
         Returned(setOptionsFromChanges(This, changes), "setOptionsFromChanges",
                  DOMAIN changes
                  \cup (IF "options" \in DOMAIN changes
                        THEN DOMAIN changes["options"] ELSE {}))
    /\ UNCHANGED <<loadVars, sizeVars>>

SetMaxSize ==
    /\ steps < MaxSteps
    /\ \E d \in DisplaySizes :
         Store(setMaxSize(This, d.width, d.height)) /\ Called("setMaxSize", FALSE, FALSE)
    /\ UNCHANGED <<loadVars, sizeVars>>

\* The host on a resize of the displayed image: setMaxSize with the new display
\* size, then resizeCropperPosition with the size it replaced.
Resize ==
    /\ steps < MaxSteps
    /\ loadedImage.present
    /\ \E d \in DisplaySizes :
         Store(resizeCropperPosition(setMaxSize(This, d.width, d.height), maxSize))
         /\ Called("resize", FALSE, FALSE)
    /\ UNCHANGED <<loadVars, sizeVars>>

fullFrame(s) == [s EXCEPT !.cropper = maxSizeCropperPosition(s)]

\* The host on a finished load: it stores the LoadedImage, seeds maxSize with the
\* display size of the transformed image and sets the full-frame position.
LoadImage ==
    /\ steps < MaxSteps
    /\ \E size \in ImageSizes, d \in DisplaySizes :
         Store(fullFrame(setMaxSize([This EXCEPT !.loadedImage = Image(size)],
                                    d.width, d.height)))
         /\ Called("load", FALSE, FALSE)
    /\ UNCHANGED <<loadVars, sizeVars>>

(* ------------------------------------------------------------------ *)
(* LoadImageService (services/load-image.service.ts)                   *)
(* ------------------------------------------------------------------ *)

\* Bound on the number of loads and retransforms one service is asked for.
MaxLoads == 2

\* A MIME type is the sequence of its parts: image/svg+xml is <<"image/", "svg", "+xml">>.
\* The empty sequence is the empty string, which is falsy like an absent type.
ImagePng == <<"image/", "png">>
ImageSvgXml == <<"image/", "svg", "+xml">>
ImagePngUpper == <<"IMAGE/", "PNG">>
TextHtml == <<"text/", "html">>
NoType == <<>>

AcceptedSubtypes ==
    {"png", "jpg", "jpeg", "heic", "bmp", "gif", "tiff", "svg", "webp", "x-icon",
     "vnd.microsoft.icon"}

\* /image\/(png|jpg|...)/.test(type): unanchored and case-sensitive.
isValidImageType(type) ==
    \E i \in 1..(Len(type) - 1) : type[i] = "image/" /\ type[i + 1] \in AcceptedSubtypes

\* a % b of JavaScript: the sign of the result is the sign of a.
JsRem(a, b) == Sign(a) * (Abs(a) % Abs(b))

Identity == [rotate |-> 0, flip |-> FALSE]

\* getTransformationsFromExifData(n) of utils/exif.utils, on the orientation tag read
\* from the bytes (or -1): the eight EXIF orientations, identity for anything else.
getTransformationsFromExifData(orientation) ==
    CASE orientation = 2 -> [rotate |-> 0, flip |-> TRUE]
      [] orientation = 3 -> [rotate |-> 2, flip |-> FALSE]
      [] orientation = 4 -> [rotate |-> 2, flip |-> TRUE]
      [] orientation = 5 -> [rotate |-> 1, flip |-> TRUE]
      [] orientation = 6 -> [rotate |-> 1, flip |-> FALSE]
      [] orientation = 7 -> [rotate |-> 3, flip |-> TRUE]
      [] orientation = 8 -> [rotate |-> 3, flip |-> FALSE]
      [] OTHER -> Identity

\* options.aspectRatio ?? 1
AspectRatioOr1(o) == IF o.aspectRatio = Undefined THEN R(1) ELSE o.aspectRatio

\* getTransformedSize that takes the parity of options.canvasRotation alone.
getTransformedSize_OwnRotation(originalSize, exifTransform, o) ==
    IF o.containWithinAspectRatio
    THEN IF JsRem(o.canvasRotation, 2) # 0
         THEN Dim(MathMax(originalSize.height, Mul(originalSize.width, AspectRatioOr1(o))),
                  MathMax(originalSize.width, Div(originalSize.height, AspectRatioOr1(o))))
         ELSE Dim(MathMax(originalSize.width, Mul(originalSize.height, AspectRatioOr1(o))),
                  MathMax(originalSize.height, Div(originalSize.width, AspectRatioOr1(o))))
    ELSE IF JsRem(o.canvasRotation, 2) # 0
         THEN Dim(originalSize.height, originalSize.width)
         ELSE Dim(originalSize.width, originalSize.height)

\* getTransformedSize whose contain mode does not look at the rotation.
getTransformedSize_ContainEven(originalSize, exifTransform, o) ==
    IF o.containWithinAspectRatio
    THEN Dim(MathMax(originalSize.width, Mul(originalSize.height, AspectRatioOr1(o))),
             MathMax(originalSize.height, Div(originalSize.width, AspectRatioOr1(o))))
    ELSE IF JsRem(o.canvasRotation + exifTransform.rotate, 2) # 0
         THEN Dim(originalSize.height, originalSize.width)
         ELSE Dim(originalSize.width, originalSize.height)

getTransformedSize(originalSize, exifTransform, o) ==
    LET canvasRotation == o.canvasRotation + exifTransform.rotate
    IN IF o.containWithinAspectRatio
       THEN IF JsRem(canvasRotation, 2) # 0
            THEN LET minWidthToContain == Mul(originalSize.width, AspectRatioOr1(o))
                     minHeightToContain == Div(originalSize.height, AspectRatioOr1(o))
                 IN Dim(MathMax(originalSize.height, minWidthToContain),
                        MathMax(originalSize.width, minHeightToContain))
            ELSE LET minWidthToContain == Mul(originalSize.height, AspectRatioOr1(o))
                     minHeightToContain == Div(originalSize.width, AspectRatioOr1(o))
                 IN Dim(MathMax(originalSize.width, minWidthToContain),
                        MathMax(originalSize.height, minHeightToContain))
       ELSE IF JsRem(canvasRotation, 2) # 0
            THEN Dim(originalSize.height, originalSize.width)
            ELSE Dim(originalSize.width, originalSize.height)

\* The test of line 128 with the rotation taken modulo 4.
transformLoadedImageSkips_Mod4(exifTransform, o, forceTransform) ==
    /\ ~forceTransform
    /\ (o.canvasRotation + exifTransform.rotate) % 4 = 0
    /\ ~exifTransform.flip
    /\ ~o.containWithinAspectRatio

\* Line 128 of transformLoadedImage: the original is returned as the transformed image.
transformLoadedImageSkips(exifTransform, o, forceTransform) ==
    /\ ~forceTransform
    /\ o.canvasRotation + exifTransform.rotate = 0
    /\ ~exifTransform.flip
    /\ ~o.containWithinAspectRatio

\* One variant of an image: its object URL, its image element and its size.  An image
\* element is named by the object URL it was decoded from.
Variant(objectUrl, image, size) == [objectUrl |-> objectUrl, image |-> image, size |-> size]

NoVariant == Variant(0, 0, Dim(Zero, Zero))

NoLoadedImage ==
    [present |-> FALSE, original |-> NoVariant, transformed |-> NoVariant,
     exifTransform |-> Identity]

LoadedImageOf(original, transformed, exifTransform) ==
    [present |-> TRUE, original |-> original, transformed |-> transformed,
     exifTransform |-> exifTransform]

\* Lines 129..141: the result when the transform is skipped.
aliasedLoadedImage(original, exifTransform) ==
    LoadedImageOf(Variant(original.objectUrl, original.image, original.size),
                  Variant(original.objectUrl, original.image, original.size),
                  exifTransform)

\* The width and height of a canvas are integers: a fraction is truncated.
CanvasLength(v) == IF IsFinite(v) /\ v.n >= 0 THEN R(v.n \div v.d) ELSE Zero

\* Line 107 reading the orientation of the bytes whatever the decoder does.
exifTransformFor_Bytes(autoRotate, orientation) ==
    getTransformationsFromExifData(orientation)

\* Line 107 of transformImageFromArrayBuffer: the orientation of the bytes is read
\* only when the decoder does not rotate by itself.
exifTransformFor(autoRotate, orientation) ==
    getTransformationsFromExifData(IF autoRotate THEN -1 ELSE orientation)

(* ------------------------------------------------------------------ *)
(* Inputs of the pipeline                                              *)
(* ------------------------------------------------------------------ *)

NaturalSize == Dim(R(100), R(200))

ViewBoxSize == Dim(R(300), R(150))

\* The EXIF orientation tag of the bytes; 0 when there is none.
Orientations == {0, 1, 3, 6, 7}

\* What is loaded: the declared MIME type, the orientation tag of the bytes, the
\* decoded size, and for an SVG document what its root element declares.
Source(type, orientation, svgDoc) ==
    [declaredType |-> type, orientation |-> orientation, svgDoc |-> svgDoc]

Sources ==
    {Source(ty, o, "none") : ty \in {ImagePng, TextHtml, NoType}, o \in Orientations}
    \cup {Source(ImagePngUpper, 0, "none")}
    \cup {Source(ImageSvgXml, 0, d) : d \in {"noSvgElement", "widthHeight", "viewBox", "bare"}}

LoadOptions ==
    [checkImageType : BOOLEAN,
     canvasRotation : {-1, 0, 2, 4},
     containWithinAspectRatio : BOOLEAN,
     aspectRatio : {R(2)}]

(* ------------------------------------------------------------------ *)
(* The load in flight                                                  *)
(* ------------------------------------------------------------------ *)

NoOverride == [present |-> FALSE, size |-> Dim(Zero, Zero)]

IdleTask ==
    [entry |-> "none",
     source |-> Source(NoType, 0, "none"),
     imageType |-> NoType,
     options |-> [checkImageType |-> TRUE, canvasRotation |-> 0,
                  containWithinAspectRatio |-> FALSE, aspectRatio |-> R(1)],
     originalObjectUrl |-> 0,
     decodeStarted |-> FALSE,
     originalImageSize |-> NoOverride,
     original |-> NoVariant,
     exifTransform |-> Identity,
     forceTransform |-> FALSE,
     decision |-> "none",
     canvas |-> Dim(Zero, Zero),
     transformedObjectUrl |-> 0,
     result |-> NoLoadedImage,
     error |-> ""]

\* globalThis.URL.createObjectURL(blob)
CreateObjectURL == revoked' = [u \in DOMAIN revoked \cup {nextUrl} |->
                                  IF u = nextUrl THEN 0 ELSE revoked[u]]
                   /\ nextUrl' = nextUrl + 1

\* URL.revokeObjectURL on each of `urls`
RevokeObjectURLs(urls) ==
    revoked' = [u \in DOMAIN revoked |-> IF u \in urls THEN revoked[u] + 1 ELSE revoked[u]]

Rejected(t, error) ==
    /\ task' = [t EXCEPT !.error = error]
    /\ pc' = "failed"

\* loadImageFromArrayBuffer up to its first await: the Blob, its object URL and the
\* Image; an SVG is sized before its decode starts.
loadImageFromArrayBuffer(t, imageType) ==
    /\ CreateObjectURL
    /\ IF imageType = ImageSvgXml
       THEN /\ task' = [t EXCEPT !.imageType = imageType, !.originalObjectUrl = nextUrl]
            /\ pc' = "svgSize"
       ELSE /\ task' = [t EXCEPT !.imageType = imageType, !.originalObjectUrl = nextUrl,
                                 !.decodeStarted = TRUE]
            /\ pc' = "decoding"

\* checkImageTypeAndLoadImageFromArrayBuffer
checkImageTypeAndLoadImageFromArrayBuffer(t, imageType) ==
    IF ~isValidImageType(imageType)
    THEN Rejected(t, "Invalid image type") /\ UNCHANGED <<nextUrl, revoked>>
    ELSE loadImageFromArrayBuffer(t, imageType)

Begin(entry, source, o) ==
    [IdleTask EXCEPT !.entry = entry, !.source = source, !.options = o]

CanStart == pc = "idle" /\ loads < MaxLoads

LoadImageFile ==
    /\ CanStart
    /\ \E source \in Sources, o \in LoadOptions :
         IF o.checkImageType
         THEN checkImageTypeAndLoadImageFromArrayBuffer(Begin("file", source, o),
                                                       source.declaredType)
         ELSE loadImageFromArrayBuffer(Begin("file", source, o), NoType)
    /\ loads' = loads + 1
    /\ UNCHANGED <<autoRotateSupported, current, cropperVars, sizeVars>>

LoadImageFromURL ==
    /\ CanStart
    /\ \E source \in Sources, o \in LoadOptions :
         loadImageFromArrayBuffer(Begin("url", source, o), source.declaredType)
    /\ loads' = loads + 1
    /\ UNCHANGED <<autoRotateSupported, current, cropperVars, sizeVars>>

\* base64ToArrayBuffer drops the `data:<type>;base64,` prefix: no type is passed on.
LoadBase64Image ==
    /\ CanStart
    /\ \E source \in Sources, o \in LoadOptions :
         loadImageFromArrayBuffer(Begin("base64", source, o), NoType)
    /\ loads' = loads + 1
    /\ UNCHANGED <<autoRotateSupported, current, cropperVars, sizeVars>>

\* getSvgImageSize, then the decode of the original starts.
SvgSize ==
    /\ pc = "svgSize"
    /\ CASE task.source.svgDoc = "widthHeight" ->
              /\ task' = [task EXCEPT !.decodeStarted = TRUE]
              /\ pc' = "decoding"
         [] task.source.svgDoc = "viewBox" ->
              /\ task' = [task EXCEPT !.decodeStarted = TRUE,
                                      !.originalImageSize =
                                          [present |-> TRUE, size |-> ViewBoxSize]]
              /\ pc' = "decoding"
         [] task.source.svgDoc = "noSvgElement" ->
              Rejected(task, "Failed to parse SVG image")
         [] OTHER -> Rejected(task, "Failed to load SVG image")
    /\ UNCHANGED <<autoRotateSupported, nextUrl, revoked, current, loads, cropperVars, sizeVars>>

\* transformLoadedImage up to its first await: the original is returned as the
\* transformed image, or a canvas of the transformed size is drawn and encoded.
transformLoadedImage(t) ==
    IF transformLoadedImageSkips(t.exifTransform, t.options, t.forceTransform)
    THEN /\ task' = [t EXCEPT !.decision = "alias",
                              !.result = aliasedLoadedImage(t.original, t.exifTransform)]
         /\ pc' = "done"
    ELSE LET size == getTransformedSize(t.original.size, t.exifTransform, t.options)
         IN /\ task' = [t EXCEPT !.decision = "render",
                                 !.canvas = Dim(CanvasLength(size.width),
                                                CanvasLength(size.height))]
            /\ pc' = "toBlob"

\* The original is decoded: transformImageFromArrayBuffer, then transformLoadedImage.
OriginalOnload ==
    /\ pc = "decoding"
    /\ LET exifTransform == exifTransformFor(autoRotateSupported, task.source.orientation)
           size == IF task.originalImageSize.present
                   THEN task.originalImageSize.size ELSE NaturalSize
       IN transformLoadedImage(
              [task EXCEPT !.exifTransform = exifTransform,
                           !.original = Variant(task.originalObjectUrl,
                                                task.originalObjectUrl, size),
                           !.forceTransform = task.originalImageSize.present])
    /\ UNCHANGED <<autoRotateSupported, nextUrl, revoked, current, loads, cropperVars, sizeVars>>

OriginalOnerror ==
    /\ pc = "decoding"
    /\ Rejected(task, "error event")
    /\ UNCHANGED <<autoRotateSupported, nextUrl, revoked, current, loads, cropperVars, sizeVars>>

\* canvas.toBlob answers: no Blob throws, a Blob gets an object URL and is decoded.
ToBlob ==
    /\ pc = "toBlob"
    /\ \/ /\ Rejected(task, "Failed to get Blob for transformed image.")
          /\ UNCHANGED <<nextUrl, revoked>>
       \/ /\ CreateObjectURL
          /\ task' = [task EXCEPT !.transformedObjectUrl = nextUrl]
          /\ pc' = "decoding2"
    /\ UNCHANGED <<autoRotateSupported, current, loads, cropperVars, sizeVars>>

TransformedOnload ==
    /\ pc = "decoding2"
    /\ task' = [task EXCEPT !.result =
                  LoadedImageOf(
                      Variant(task.original.objectUrl, task.original.image,
                              task.original.size),
                      Variant(task.transformedObjectUrl, task.transformedObjectUrl,
                              task.canvas),
                      task.exifTransform)]
    /\ pc' = "done"
    /\ UNCHANGED <<autoRotateSupported, nextUrl, revoked, current, loads, cropperVars, sizeVars>>

TransformedOnerror ==
    /\ pc = "decoding2"
    /\ Rejected(task, "error event")
    /\ UNCHANGED <<autoRotateSupported, nextUrl, revoked, current, loads, cropperVars, sizeVars>>

(* ------------------------------------------------------------------ *)
(* The owner of the LoadedImage                                        *)
(* ------------------------------------------------------------------ *)

Handles(img) ==
    IF img.present THEN {img.original.objectUrl, img.transformed.objectUrl} ELSE {}

\* The owner takes the LoadedImage of a finished load or retransform and releases
\* the handles of the one it replaces that the new one does not hold.
Accept ==
    /\ pc = "done"
    /\ RevokeObjectURLs(Handles(current) \ Handles(task.result))
    /\ current' = task.result
    /\ task' = IdleTask
    /\ pc' = "idle"
    /\ UNCHANGED <<autoRotateSupported, nextUrl, loads, cropperVars, sizeVars>>

\* The owner is told of a failed load: it holds nothing of it.
Dismiss ==
    /\ pc = "failed"
    /\ task' = IdleTask
    /\ pc' = "idle"
    /\ UNCHANGED <<autoRotateSupported, nextUrl, revoked, current, loads, cropperVars, sizeVars>>

\* The options changed, the source did not: transformLoadedImage on the current image.
Retransform ==
    /\ CanStart
    /\ current.present
    /\ \E o \in LoadOptions :
         transformLoadedImage(
             [IdleTask EXCEPT !.entry = "retransform", !.options = o,
                              !.original = current.original,
                              !.exifTransform = current.exifTransform])
    /\ loads' = loads + 1
    /\ UNCHANGED <<autoRotateSupported, nextUrl, revoked, current, cropperVars, sizeVars>>

\* The owner is torn down and releases the handles it holds.
Teardown ==
    /\ pc = "idle"
    /\ current.present
    /\ RevokeObjectURLs(Handles(current))
    /\ current' = NoLoadedImage
    /\ pc' = "destroyed"
    /\ UNCHANGED <<autoRotateSupported, task, nextUrl, loads, cropperVars, sizeVars>>

(* ------------------------------------------------------------------ *)
(* Specifications                                                      *)
(* ------------------------------------------------------------------ *)

InitService(autoRotate) ==
    /\ autoRotateSupported = autoRotate
    /\ pc = "idle"
    /\ task = IdleTask
    /\ nextUrl = 1
    /\ revoked = [u \in {} |-> 0]
    /\ current = NoLoadedImage
    /\ loads = 0

NextCropper == SetOptions \/ SetOptionsFromChanges \/ SetMaxSize \/ Resize \/ LoadImage

\* No call of getTransformedSize is under study.
NoSizeInput ==
    [originalSize |-> Dim(Zero, Zero), exifTransform |-> Identity,
     options |-> [canvasRotation |-> 0, containWithinAspectRatio |-> FALSE,
                  aspectRatio |-> R(1)]]

NoSizeOutput == [done |-> FALSE, size |-> Dim(Zero, Zero)]

NoSizeCall == sizeInput = NoSizeInput /\ sizeOutput = NoSizeOutput

Init == InitCropper /\ InitService(FALSE) /\ NoSizeCall

\* The geometry engine alone.
Spec == Init /\ [][NextCropper]_vars

NextLoad ==
    \/ LoadImageFile \/ LoadImageFromURL \/ LoadBase64Image
    \/ SvgSize \/ OriginalOnload \/ OriginalOnerror
    \/ ToBlob \/ TransformedOnload \/ TransformedOnerror
    \/ Accept \/ Dismiss \/ Retransform \/ Teardown

\* The loading pipeline and the owner of its result.
InitLoad ==
    InitCropper /\ NoSizeCall /\ \E autoRotate \in BOOLEAN : InitService(autoRotate)

SpecLoad == InitLoad /\ [][NextLoad]_vars

SizeInputs ==
    [originalSize : {Dim(R(100), R(200)), Dim(R(200), R(100)), Dim(R(150), R(150)),
                     Dim(R(300), R(100))},
     exifTransform : [rotate : 0..3, flip : BOOLEAN],
     options : [canvasRotation : -2..4,
                containWithinAspectRatio : BOOLEAN,
                aspectRatio : {Undefined, R(1), R(2), Q(1, 2), Q(3, 2), Round(Q(4, 3))}]]

InitSize == InitCropper /\ InitService(FALSE) /\ sizeInput \in SizeInputs
            /\ sizeOutput = NoSizeOutput

GetTransformedSize ==
    /\ ~sizeOutput.done
    /\ sizeOutput' = [done |-> TRUE,
                      size |-> getTransformedSize(sizeInput.originalSize,
                                                  sizeInput.exifTransform,
                                                  sizeInput.options)]
    /\ UNCHANGED <<sizeInput, cropperVars, loadVars>>

\* getTransformedSize alone, on every input of SizeInputs.
SpecSize == InitSize /\ [][GetTransformedSize]_vars

\* Engines that were configured before the image was stored: setOptions without an
\* image only merges, and maxSize is still {0, 0}.
MaxSizeOptions ==
    {[DefaultOptions EXCEPT !.maintainAspectRatio = m, !.aspectRatio = a,
                            !.cropperMaxWidth = w, !.cropperMaxHeight = h] :
        m \in BOOLEAN, a \in {R(1), R(2), Round(Q(4, 3)), Round(Q(3, 5))},
        w \in SizeOptionValues, h \in SizeOptionValues}

MaxSizeImages == {Dim(R(200), R(200)), Dim(R(300), R(200))}

Configured(o, size) ==
    [InitialState EXCEPT !.options = o, !.loadedImage = Image(size)]

InitMaxSize ==
    /\ InitService(FALSE) /\ NoSizeCall
    /\ last = [op |-> "new", threw |-> FALSE, reset |-> FALSE, aspect |-> FALSE]
    /\ steps = 0
    /\ \E o \in MaxSizeOptions, size \in MaxSizeImages :
         /\ options = o
         /\ loadedImage = Image(size)
         /\ cropper = Configured(o, size).cropper
         /\ maxSize = Configured(o, size).maxSize
         /\ cropperScaledMinWidth = Configured(o, size).cropperScaledMinWidth
         /\ cropperScaledMinHeight = Configured(o, size).cropperScaledMinHeight
         /\ cropperScaledMaxWidth = Configured(o, size).cropperScaledMaxWidth
         /\ cropperScaledMaxHeight = Configured(o, size).cropperScaledMaxHeight

\* setMaxSize alone, on every engine of InitMaxSize.
SpecMaxSize == InitMaxSize /\ [][SetMaxSize]_vars

(* ------------------------------------------------------------------ *)
(* Properties of the geometry engine                                   *)
(* ------------------------------------------------------------------ *)

\* 0 <= x1 < x2 <= m.width and 0 <= y1 < y2 <= m.height
InBounds(c, m) ==
    /\ Leq(Zero, c.x1) /\ Lt(c.x1, c.x2) /\ Leq(c.x2, m.width)
    /\ Leq(Zero, c.y1) /\ Lt(c.y1, c.y2) /\ Leq(c.y2, m.height)

ScaledSizes ==
    <<cropperScaledMinWidth, cropperScaledMinHeight,
      cropperScaledMaxWidth, cropperScaledMaxHeight>>

\* (x2 - x1) / (y2 - y1)
RatioOf(c) == Div(Sub(c.x2, c.x1), Sub(c.y2, c.y1))

SetOptionsCalled(l) == l.op \in {"setOptions", "setOptionsFromChanges"}

C2_Original ==
    [][(last'.op = "setOptions" /\ last'.threw)
       => (options' = options /\ cropper' = cropper /\ ScaledSizes' = ScaledSizes)]_vars

\* maintainAspectRatio with an aspectRatio that is absent or not positive
InvalidAspectRatio(o) ==
    o.maintainAspectRatio /\ (o.aspectRatio = Undefined \/ Leq(o.aspectRatio, Zero))

\* C3, as claimed: a setOptions call whose merged options have maintainAspectRatio
\* true and an aspectRatio that is zero, negative or absent fails.
C3_Original == (last.op = "setOptions" /\ InvalidAspectRatio(options)) => last.threw

\* The rectangle c scaled per axis from the bounds old to the bounds new:
\* x * new.width / old.width and y * new.height / old.height.
Rescaled(c, old, new) ==
    Pos(Div(Mul(c.x1, new.width), old.width), Div(Mul(c.y1, new.height), old.height),
        Div(Mul(c.x2, new.width), old.width), Div(Mul(c.y2, new.height), old.height))

\* C4, as claimed: on a loaded image setMaxSize(w, h) rescales the rectangle per axis
\* by the ratio of the new to the old maxSize.
C4_Original ==
    [][(loadedImage.present /\ last'.op = "setMaxSize")
       => cropper' = Rescaled(cropper, maxSize, maxSize')]_vars

\* C4, amended: setMaxSize(w, h) leaves the rectangle at its old coordinates; it is
\* resizeCropperPosition(oldMaxSize), called after it, that rescales the rectangle
\* per axis by the ratio of the new to the old maxSize.
C4_Amended ==
    [][/\ last'.op = "setMaxSize" => cropper' = cropper
       /\ (loadedImage.present /\ last'.op = "resize")
          => cropper' = Rescaled(cropper, maxSize, maxSize')]_vars

\* The resize from {200, 200} to {400, 200} has turned {50, 50, 150, 150} into
\* {100, 50, 300, 150}.
C4_Witness ==
    /\ last.op = "resize"
    /\ maxSize = Dim(R(400), R(200))
    /\ cropper = Pos(R(100), R(50), R(300), R(150))

MaxSizeFits ==
    /\ Leq(cropperScaledMinWidth, cropperScaledMaxWidth)
    /\ Leq(cropperScaledMinHeight, cropperScaledMaxHeight)
    /\ Leq(cropperScaledMaxWidth, maxSize.width)
    /\ Leq(cropperScaledMaxHeight, maxSize.height)

IsLoad(tk) == tk.entry \in {"file", "url", "base64"}

\* C6, as claimed: with checkImageType a load whose declared MIME type is not
\* accepted fails before an object URL is created and before a decode is started,
\* whether it came through loadImageFile, loadImageFromURL or loadBase64Image.
C6_Original ==
    (IsLoad(task) /\ task.options.checkImageType
       /\ ~isValidImageType(task.source.declaredType))
    => (pc = "failed" /\ task.originalObjectUrl = 0 /\ ~task.decodeStarted)

\* The transformed variant is the original: same object URL, same image, same size.
Aliased(img) == img.present /\ img.transformed = img.original

\* The transformed variant is a rendering of its own.
Rendered(img) ==
    /\ img.present
    /\ img.transformed.objectUrl # img.original.objectUrl
    /\ img.transformed.image # img.original.image

\* What transformLoadedImage did once it has decided, given whether it had to skip.
SkipsExactlyWhen(skip) ==
    task.decision # "none"
    => IF skip
       THEN task.decision = "alias" /\ pc = "done" /\ Aliased(task.result)
       ELSE task.decision = "render" /\ (pc = "done" => Rendered(task.result))

\* C7, as claimed: transformLoadedImage returns the original as the transformed
\* variant exactly when no size override is forced, (canvasRotation + exif rotate)
\* mod 4 is 0, there is no flip and containWithinAspectRatio is off; otherwise it
\* renders a new variant.
C7_Original ==
    SkipsExactlyWhen(/\ ~task.forceTransform
                     /\ (task.options.canvasRotation + task.exifTransform.rotate) % 4 = 0
                     /\ ~task.exifTransform.flip
                     /\ ~task.options.containWithinAspectRatio)

\* C7, amended: transformLoadedImage returns the original as the transformed variant
\* exactly when no size override is forced, canvasRotation + exif rotate is 0 (the
\* sum itself, not its remainder: a sum of 4 is rendered), there is no flip and
\* containWithinAspectRatio is off; otherwise it renders a new variant.
C7_Amended ==
    SkipsExactlyWhen(/\ ~task.forceTransform
                     /\ task.options.canvasRotation + task.exifTransform.rotate = 0
                     /\ ~task.exifTransform.flip
                     /\ ~task.options.containWithinAspectRatio)

\* A half turn of the canvas on a half turn of the EXIF orientation was rendered.
C7_Witness ==
    /\ pc = "done"
    /\ task.options.canvasRotation = 2 /\ task.exifTransform = [rotate |-> 2, flip |-> FALSE]
    /\ ~task.forceTransform /\ ~task.options.containWithinAspectRatio
    /\ Rendered(task.result)

\* out is the larger of a and b
LargerOf(a, b, out) == out \in {a, b} /\ Leq(a, out) /\ Leq(b, out)

\* C8: getTransformedSize returns (h, w) for an odd effective rotation and (w, h)
\* for an even one; with containWithinAspectRatio and a positive aspectRatio it
\* returns {max(h, w * ar), max(w, h / ar)} for an odd effective rotation and
\* {max(w, h * ar), max(h, w / ar)} for an even one.
C8_TransformedSize ==
    LET w == sizeInput.originalSize.width
        h == sizeInput.originalSize.height
        ar == sizeInput.options.aspectRatio
        odd == (sizeInput.options.canvasRotation + sizeInput.exifTransform.rotate) % 2 = 1
        out == sizeOutput.size
    IN sizeOutput.done
       => IF ~sizeInput.options.containWithinAspectRatio
          THEN out = (IF odd THEN Dim(h, w) ELSE Dim(w, h))
          ELSE Gt(ar, Zero)
               => IF odd
                  THEN /\ LargerOf(h, Mul(w, ar), out.width)
                       /\ LargerOf(w, Div(h, ar), out.height)
                  ELSE /\ LargerOf(w, Mul(h, ar), out.width)
                       /\ LargerOf(h, Div(w, ar), out.height)

\* A quarter turn of the EXIF orientation, contained in the ratio 2: {100, 200}
\* gives {max(200, 100 * 2), max(100, 200 / 2)}.
C8_Witness ==
    /\ sizeOutput.done
    /\ sizeInput.originalSize = Dim(R(100), R(200))
    /\ sizeInput.options.canvasRotation = 0 /\ sizeInput.exifTransform.rotate = 1
    /\ sizeInput.options.containWithinAspectRatio
    /\ sizeInput.options.aspectRatio = R(2)
    /\ sizeOutput.size = Dim(R(200), R(100))

\* C9, as claimed: no object URL is released twice, and once a load has failed or no
\* load is in flight every object URL the pipeline created is either held by the
\* current LoadedImage or has been released.
C9_Original ==
    \A u \in DOMAIN revoked :
        /\ revoked[u] <= 1
        /\ (pc \in {"failed", "idle", "destroyed"} /\ u \notin Handles(current))
           => revoked[u] = 1

\* C10: when the decoder rotates by itself a load applies the identity transform
\* whatever the orientation of the bytes, and with canvasRotation 0, no contain mode
\* and no size override the transformed variant is the original.
C10_AutoRotate ==
    (autoRotateSupported /\ IsLoad(task) /\ task.decision # "none")
    => /\ task.exifTransform = Identity
       /\ (task.options.canvasRotation = 0 /\ ~task.options.containWithinAspectRatio
           /\ ~task.forceTransform)
          => (pc = "done" /\ Aliased(task.result) /\ task.result.exifTransform = Identity)

\* Bytes with a quarter-turn orientation were loaded on a decoder that rotates by
\* itself, and the transformed variant is the original.
C10_Witness ==
    /\ autoRotateSupported /\ IsLoad(task) /\ pc = "done"
    /\ task.source.orientation = 6
    /\ task.options.canvasRotation = 0 /\ ~task.options.containWithinAspectRatio
    /\ Aliased(task.result) /\ task.exifTransform = Identity

\* x and y, y > 0, differ by at most y / 2^bits; in exact arithmetic.
Near(x, y, bits) ==
    /\ IsFinite(x) /\ IsFinite(y)
    /\ Abs(x.n * y.d - y.n * x.d) * Pow2(bits) <= y.n * x.d

\* The rotated image fits in the size returned by getTransformedSize.
Contains(odd) ==
    IF odd
    THEN /\ Leq(sizeInput.originalSize.height, sizeOutput.size.width)
         /\ Leq(sizeInput.originalSize.width, sizeOutput.size.height)
    ELSE /\ Leq(sizeInput.originalSize.width, sizeOutput.size.width)
         /\ Leq(sizeInput.originalSize.height, sizeOutput.size.height)

ContainCalled ==
    /\ sizeOutput.done
    /\ sizeInput.options.containWithinAspectRatio
    /\ Gt(sizeInput.options.aspectRatio, Zero)

OddRotation ==
    (sizeInput.options.canvasRotation + sizeInput.exifTransform.rotate) % 2 = 1

\* C11, as claimed: with containWithinAspectRatio and a positive aspectRatio the size
\* returned by getTransformedSize has width / height exactly equal to aspectRatio
\* and is at least as large on both axes as the rotated image: (h, w) for an odd
\* effective rotation, (w, h) for an even one.
C11_Original ==
    ContainCalled
    => /\ StrictEq(Div(sizeOutput.size.width, sizeOutput.size.height),
                   sizeInput.options.aspectRatio)
       /\ Contains(OddRotation)

\* C11, amended: with containWithinAspectRatio and a positive aspectRatio the size
\* returned by getTransformedSize is at least as large on both axes as the rotated
\* image, and width equals height * aspectRatio up to the rounding of the one
\* product or quotient that computed it: the two differ by at most one part in
\* 2^(Precision - 1).
C11_Amended ==
    ContainCalled
    => /\ Near(sizeOutput.size.width,
               [n |-> sizeOutput.size.height.n * sizeInput.options.aspectRatio.n,
                d |-> sizeOutput.size.height.d * sizeInput.options.aspectRatio.d],
               Precision - 1)
       /\ Contains(OddRotation)

\* {100, 200} contained in the ratio nearest to 4/3: the height stays 200, the width
\* is the rounded product 200 * aspectRatio, and width / height is another number
\* than aspectRatio.
C11_Witness ==
    /\ ContainCalled /\ ~OddRotation
    /\ sizeInput.originalSize = Dim(R(100), R(200))
    /\ sizeInput.options.aspectRatio = Round(Q(4, 3))
    /\ sizeOutput.size.height = R(200)
    /\ sizeOutput.size.width = Mul(R(200), sizeInput.options.aspectRatio)
    /\ ~StrictEq(Div(sizeOutput.size.width, sizeOutput.size.height),
                 sizeInput.options.aspectRatio)

(* ------------------------------------------------------------------ *)
(* Further properties of the geometry engine                           *)
(* ------------------------------------------------------------------ *)

\* C12: when no image is loaded a successful setOptions(partial) only merges the
\* options: the crop rectangle, maxSize and the four scaled sizes are unchanged,
\* whatever the partial holds.
C12_OnlyMerges ==
    [][(~loadedImage.present /\ last'.op = "setOptions" /\ ~last'.threw)
       => /\ cropper' = cropper
          /\ maxSize' = maxSize
          /\ ScaledSizes' = ScaledSizes
          /\ \E partial \in Partials : options' = MergeOptions(options, partial)]_vars

\* Without an image, with maxSize set, setOptions stored a minimal width and an
\* aspect ratio and left the scaled sizes as setMaxSize computed them.
C12_Witness ==
    /\ ~loadedImage.present
    /\ last.op = "setOptions" /\ ~last.threw
    /\ maxSize = Dim(R(200), R(200))
    /\ options.cropperMinWidth = R(100) /\ options.aspectRatio = R(2)
    /\ cropper = Pos(Zero, Zero, Zero, Zero)
    /\ cropperScaledMinWidth = R(MinScaledSize)
    /\ cropperScaledMaxHeight = R(200)

\* A successful setOptions on a loaded engine whose options object holds aspectRatio
\* or maintainAspectRatio and leaves maintainAspectRatio true.
AspectUpdate ==
    /\ loadedImage.present
    /\ last'.op = "setOptions" /\ ~last'.threw /\ last'.aspect
    /\ options'.maintainAspectRatio

\* The current rectangle already has the resulting ratio and no reset is asked for.
RatioKept ==
    /\ ~options'.resetCropOnAspectRatioChange
    /\ StrictEq(RatioOf(cropper), options'.aspectRatio)

\* C13, as claimed: on a loaded engine with maintainAspectRatio true a setOptions
\* call that touches aspectRatio or maintainAspectRatio leaves the rectangle alone
\* when resetCropOnAspectRatioChange is false and the rectangle already has the
\* resulting ratio; otherwise it resets it to {0, 0, maxSize.width, maxSize.height}.
C13_Original ==
    [][AspectUpdate
       => IF RatioKept
          THEN ~last'.reset /\ cropper' = cropper
          ELSE cropper' = Pos(Zero, Zero, maxSize'.width, maxSize'.height)]_vars

\* C13, amended: on a loaded engine with maintainAspectRatio true a setOptions call
\* that touches aspectRatio or maintainAspectRatio leaves the rectangle alone when
\* resetCropOnAspectRatioChange is false and the rectangle already has the resulting
\* ratio; otherwise it sets it to the full frame {0, 0, maxSize.width,
\* maxSize.height} and then clamps that with checkCropperPosition, so the result is
\* the full frame only when the full frame satisfies the size constraints.
C13_Amended ==
    [][AspectUpdate
       => IF RatioKept
          THEN ~last'.reset /\ cropper' = cropper
          ELSE /\ last'.reset
               /\ cropper' = checkCropperPosition(
                                 Pos(Zero, Zero, maxSize'.width, maxSize'.height),
                                 This', FALSE)]_vars

\* With resetCropOnAspectRatioChange false the ratio 2 reset the rectangle to the
\* clamped full frame {0, 50, 200, 150}, and a later setOptions that touched
\* maintainAspectRatio left it there.
C13_Witness ==
    /\ loadedImage.present
    /\ last.op = "setOptions" /\ ~last.threw /\ last.aspect /\ ~last.reset
    /\ options.maintainAspectRatio /\ ~options.resetCropOnAspectRatioChange
    /\ options.aspectRatio = R(2)
    /\ maxSize = Dim(R(200), R(200))
    /\ cropper = Pos(Zero, R(50), R(200), R(150))

\* C14, as claimed: in every reachable state, whatever options, image size and
\* maxSize are in effect, cropperScaledMinWidth >= 20 and
\* cropperScaledMinHeight >= 20.
C14_Original ==
    /\ Leq(R(MinScaledSize), cropperScaledMinWidth)
    /\ Leq(R(MinScaledSize), cropperScaledMinHeight)

\* The call just made recomputed the scaled minimal size on a loaded engine with
\* maintainAspectRatio true: setMaxSize always does, setOptions does when its options
\* object holds aspectRatio or maintainAspectRatio.
MinSizeRecomputed ==
    /\ loadedImage.present /\ options.maintainAspectRatio
    /\ \/ last.op \in {"setMaxSize", "resize", "load"}
       \/ last.op = "setOptions" /\ ~last.threw /\ last.aspect

\* C15, as claimed: whenever the scaled minimal size is recomputed with an image
\* loaded and maintainAspectRatio true, cropperScaledMinHeight equals
\* cropperScaledMinWidth / aspectRatio, whatever cropperMinHeight is.
C15_Original ==
    MinSizeRecomputed
    => cropperScaledMinHeight = Div(cropperScaledMinWidth, options.aspectRatio)

\* C15, amended: whenever the scaled minimal size is recomputed with an image loaded
\* and maintainAspectRatio true, cropperScaledMinHeight equals
\* Math.max(20, cropperScaledMinWidth / aspectRatio), whatever cropperMinHeight is:
\* the minimal box has the configured ratio only when that quotient is at least 20.
C15_Amended ==
    MinSizeRecomputed
    => cropperScaledMinHeight
         = MathMax(R(MinScaledSize), Div(cropperScaledMinWidth, options.aspectRatio))

\* A minimal width of 100 image pixels shown at half size with the ratio 2: the
\* minimal box is 50 wide and the quotient 25 is its height, while cropperMinHeight
\* asks for 100.
C15_Witness ==
    /\ MinSizeRecomputed
    /\ options.aspectRatio = R(2)
    /\ options.cropperMinHeight = R(100)
    /\ cropperScaledMinWidth = R(50)
    /\ cropperScaledMinHeight = R(25)

\* setCropperScaledMaxSize ran, as the last step of setMaxSize, with an image loaded,
\* maintainAspectRatio true and a positive aspectRatio.
MaxSizeRan ==
    /\ last.op = "setMaxSize"
    /\ loadedImage.present /\ options.maintainAspectRatio
    /\ Gt(options.aspectRatio, Zero)

\* Neither scaled maximum exceeds its unclamped value, and at most one of them was
\* shrunk.
ShrinksOne ==
    /\ Leq(cropperScaledMaxWidth, unclampedMaxWidth(This))
    /\ Leq(cropperScaledMaxHeight, unclampedMaxHeight(This))
    /\ \/ cropperScaledMaxWidth = unclampedMaxWidth(This)
       \/ cropperScaledMaxHeight = unclampedMaxHeight(This)

\* C16, as claimed: whenever setCropperScaledMaxSize runs with an image loaded and
\* maintainAspectRatio true (aspectRatio > 0), cropperScaledMaxWidth ==
\* cropperScaledMaxHeight * aspectRatio, neither value exceeds its unclamped value
\* (cropperMaxWidth/Height divided by the width ratio when > 20, else
\* maxSize.width/height), and the clamp shrinks only one dimension.
C16_Original ==
    MaxSizeRan
    => /\ StrictEq(cropperScaledMaxWidth,
                   Mul(cropperScaledMaxHeight, options.aspectRatio))
       /\ ShrinksOne

\* C16, amended: whenever setCropperScaledMaxSize runs with an image loaded and
\* maintainAspectRatio true (aspectRatio > 0), neither value exceeds its unclamped
\* value, the clamp shrinks only one dimension, and cropperScaledMaxWidth equals
\* cropperScaledMaxHeight * aspectRatio up to the rounding of the one product or
\* quotient that computed the shrunk dimension: the two differ by at most one part
\* in 2^(Precision - 1).
C16_Amended ==
    MaxSizeRan
    => /\ Near(cropperScaledMaxWidth,
               [n |-> cropperScaledMaxHeight.n * options.aspectRatio.n,
                d |-> cropperScaledMaxHeight.d * options.aspectRatio.d],
               Precision - 1)
       /\ ShrinksOne

\* A 300x200 image shown at 10x10 with cropperMaxWidth 100 and the ratio nearest to
\* 4/3: the width keeps its unclamped value, the height is the rounded quotient
\* width / aspectRatio, and that height times aspectRatio is another number than the
\* width.
C16_Witness ==
    /\ MaxSizeRan
    /\ options.aspectRatio = Round(Q(4, 3))
    /\ options.cropperMaxWidth = R(100)
    /\ loadedImage.size = Dim(R(300), R(200))
    /\ maxSize = Dim(R(10), R(10))
    /\ cropperScaledMaxWidth = unclampedMaxWidth(This)
    /\ cropperScaledMaxHeight = Div(cropperScaledMaxWidth, options.aspectRatio)
    /\ Lt(cropperScaledMaxHeight, unclampedMaxHeight(This))
    /\ ~StrictEq(cropperScaledMaxWidth,
                 Mul(cropperScaledMaxHeight, options.aspectRatio))

\* The four scaled sizes a recomputation from the current options, image size and
\* maxSize gives.
Recomputed(s) ==
    <<s.cropperScaledMinWidth, s.cropperScaledMinHeight,
      s.cropperScaledMaxWidth, s.cropperScaledMaxHeight>>

\* C17, as claimed: after a successful setOptions or setMaxSize on a loaded engine
\* the stored cropperScaledMinWidth/Height and cropperScaledMaxWidth/Height equal
\* the values a fresh recomputation from the current options, transformed image
\* size and maxSize gives, also after an update that sets cropperMinWidth,
\* cropperMinHeight, cropperMaxWidth or cropperMaxHeight back to 0 or that changes
\* aspectRatio.
C17_Original ==
    (/\ loadedImage.present
     /\ last.op \in {"setOptions", "setMaxSize"} /\ ~last.threw)
    => ScaledSizes = Recomputed(setCropperScaledMaxSize(setCropperScaledMinSize(This)))

\* C18, as claimed: on a loaded engine a successful setOptions with a partial whose
\* every field already equals the current option value, so that the merged options
\* are the current ones, leaves the crop rectangle and the four scaled sizes
\* unchanged.
C18_Original ==
    [][(/\ loadedImage.present
        /\ last'.op = "setOptions" /\ ~last'.threw
        /\ options' = options)
       => /\ cropper' = cropper
          /\ ScaledSizes' = ScaledSizes]_vars

\* C19, as claimed: in every reachable state with an image loaded and maxSize set,
\* cropperScaledMinWidth <= cropperScaledMaxWidth <= maxSize.width and
\* cropperScaledMinHeight <= cropperScaledMaxHeight <= maxSize.height, whatever the
\* cropperMin*/cropperMax* options, aspectRatio, image size and maxSize are.
C19_Original ==
    (/\ loadedImage.present
     /\ Gt(maxSize.width, Zero) /\ Gt(maxSize.height, Zero))
    => /\ Leq(cropperScaledMinWidth, cropperScaledMaxWidth)
       /\ Leq(cropperScaledMaxWidth, maxSize.width)
       /\ Leq(cropperScaledMinHeight, cropperScaledMaxHeight)
       /\ Leq(cropperScaledMaxHeight, maxSize.height)

====
